---------------------------- MODULE Spec2Model ----------------------------
(***************************************************************************)
(* Generation / repair orchestration of ai-self-healing-qa.                *)
(*                                                                         *)
(* Four scripts drive a provider call and persist its result:              *)
(*   GEN  generate_test.js       generateTest        (Perplexity)          *)
(*   DBG  debug_test.js          generateFix / main  (Perplexity)          *)
(*   OAI  playwright.config.js   generateFix / main  (OpenAI, fetch)       *)
(*   PPX  unnamed/part_000       main                (Perplexity)          *)
(* and generate_test.js also holds the retry controller                    *)
(* generatePlaywrightCodeWithRetry.                                        *)
(*                                                                         *)
(* Text is a sequence of tokens; a token stands for the run of characters  *)
(* named in TokLen below.                                                  *)
(***************************************************************************)
EXTENDS Integers, Sequences, FiniteSets, TLC

(***************************************************************************)
(* Bounds of the model.                                                    *)
(***************************************************************************)
MaxRuns == 1
MaxTick == 2
MaxMs == 1
MaxRetriesArg == 3

(***************************************************************************)
(* Text.                                                                   *)
(***************************************************************************)
\* FENCE  ```            JS  js            TS  ts           NL  newline
\* SP     a blank        IMPORT  import { test } from '@playwright/test';
\* TEST   test(          RBRACE  }         PROSE  a word of explanation
\* REQUIRE   const { test } = require('@playwright/test');
\* DESCRIBE  describe(     HERE  Here is the code:
\* IMPORTHEAD  import { test }   REQUIREHEAD  const { test }
\*   (an IMPORT, a REQUIRE cut after its closing brace)
Tokens ==
  {"FENCE", "JS", "TS", "NL", "SP", "IMPORT", "TEST", "RBRACE", "PROSE",
   "REQUIRE", "DESCRIBE", "HERE", "IMPORTHEAD", "REQUIREHEAD"}

TokLen(t) ==
  CASE t = "FENCE" -> 3
    [] t = "JS" -> 2
    [] t = "TS" -> 2
    [] t = "NL" -> 1
    [] t = "SP" -> 1
    [] t = "IMPORT" -> 40
    [] t = "TEST" -> 5
    [] t = "RBRACE" -> 1
    [] t = "PROSE" -> 4
    [] t = "REQUIRE" -> 45
    [] t = "DESCRIBE" -> 9
    [] t = "HERE" -> 17
    [] t = "IMPORTHEAD" -> 15
    [] t = "REQUIREHEAD" -> 14

\* String.prototype.length, in characters
RECURSIVE StrLen(_)
StrLen(s) == IF s = <<>> THEN 0 ELSE TokLen(Head(s)) + StrLen(Tail(s))

IsSpace(t) == t \in {"NL", "SP"}

RECURSIVE TrimStart(_)
TrimStart(s) ==
  IF s = <<>> THEN <<>>
  ELSE IF IsSpace(Head(s)) THEN TrimStart(Tail(s)) ELSE s

RECURSIVE TrimEnd(_)
TrimEnd(s) ==
  IF s = <<>> THEN <<>>
  ELSE IF IsSpace(s[Len(s)]) THEN TrimEnd(SubSeq(s, 1, Len(s) - 1)) ELSE s

\* String.prototype.trim
Trim(s) == TrimEnd(TrimStart(s))

\* index of the first t at or after position i, 0 when there is none
RECURSIVE IndexFrom(_, _, _)
IndexFrom(s, t, i) ==
  IF i > Len(s) THEN 0
  ELSE IF s[i] = t THEN i ELSE IndexFrom(s, t, i + 1)

Includes(s, t) == IndexFrom(s, t, 1) # 0

\* where the interior of a block opened at p starts: after ```<tag>\n with the
\* tag one of tags, or after ```\n; 0 when no block opens at p
FenceOpen(s, p, tags) ==
  IF p > Len(s) \/ s[p] # "FENCE" THEN 0
  ELSE IF p + 2 <= Len(s) /\ s[p + 1] \in tags /\ s[p + 2] = "NL" THEN p + 3
  ELSE IF p + 1 <= Len(s) /\ s[p + 1] = "NL" THEN p + 2
  ELSE 0

\* the loop of codeBlockRegex.exec from lastIndex i: every match's group 1
RECURSIVE FencedBlocks(_, _, _)
FencedBlocks(s, i, tags) ==
  IF i > Len(s) THEN <<>>
  ELSE LET cs == FenceOpen(s, i, tags)
           q == IF cs = 0 THEN 0 ELSE IndexFrom(s, "FENCE", cs)
       IN IF cs = 0 \/ q = 0 THEN FencedBlocks(s, i + 1, tags)
          ELSE <<SubSeq(s, cs, q - 1)>> \o FencedBlocks(s, q + 1, tags)

\* matches.reduce((a, b) => a.length > b.length ? a : b)
RECURSIVE ReduceLongest(_, _)
ReduceLongest(a, rest) ==
  IF rest = <<>> THEN a
  ELSE ReduceLongest(IF StrLen(a) > StrLen(Head(rest)) THEN a ELSE Head(rest),
                     Tail(rest))

ExtractBlocks(text, tags) ==
  LET matches == FencedBlocks(text, 1, tags)
  IN IF Len(matches) > 0
     THEN Trim(ReduceLongest(Head(matches), Tail(matches)))
     ELSE Trim(text)

extractCodeFromMarkdown(text) == ExtractBlocks(text, {"JS"})

extractCodeFromResponse(response) == ExtractBlocks(response, {"JS", "TS"})

\* replace(/```(?:javascript|js)\n?/g, '')
RECURSIVE StripTaggedFences(_)
StripTaggedFences(s) ==
  IF s = <<>> THEN <<>>
  ELSE IF Len(s) >= 2 /\ s[1] = "FENCE" /\ s[2] = "JS"
       THEN IF Len(s) >= 3 /\ s[3] = "NL"
            THEN StripTaggedFences(SubSeq(s, 4, Len(s)))
            ELSE StripTaggedFences(SubSeq(s, 3, Len(s)))
       ELSE <<Head(s)>> \o StripTaggedFences(Tail(s))

\* replace(/```\n?/g, '')
RECURSIVE StripFences(_)
StripFences(s) ==
  IF s = <<>> THEN <<>>
  ELSE IF s[1] = "FENCE"
       THEN IF Len(s) >= 2 /\ s[2] = "NL"
            THEN StripFences(SubSeq(s, 3, Len(s)))
            ELSE StripFences(Tail(s))
       ELSE <<Head(s)>> \o StripFences(Tail(s))

HasTaggedFence(s) ==
  \E i \in 1..(Len(s) - 1) : s[i] = "FENCE" /\ s[i + 1] = "JS"

\* debug_test.js callPerplexity: the clean-up of the reply
cleanCorrectedCode(content) ==
  LET correctedCode == Trim(content)
  IN Trim(IF HasTaggedFence(correctedCode)
          THEN StripFences(StripTaggedFences(correctedCode))
          ELSE correctedCode)

\* cleaned.replace(/^(Here is|Here's).*?:\n/i, ''): the first line goes when it
\* starts with "Here is" and ends with a colon
RemoveHereIs(s) ==
  LET nl == IndexFrom(s, "NL", 1)
  IN IF s # <<>> /\ s[1] = "HERE" /\ nl > 1 /\ s[nl - 1] = "HERE"
     THEN SubSeq(s, nl + 1, Len(s))
     ELSE s

\* the tokens that hold a closing brace, and what is left of each when the
\* text is cut after its last closing brace
HasBrace(t) == t \in {"RBRACE", "IMPORT", "REQUIRE", "IMPORTHEAD", "REQUIREHEAD"}

ThroughBrace(t) ==
  CASE t = "IMPORT" -> "IMPORTHEAD"
    [] t = "REQUIRE" -> "REQUIREHEAD"
    [] OTHER -> t

\* cleaned.lastIndexOf('}'): the token that holds it, 0 for -1
RECURSIVE LastBrace(_, _)
LastBrace(s, i) ==
  IF i = 0 THEN 0
  ELSE IF HasBrace(s[i]) THEN i ELSE LastBrace(s, i - 1)

cleanGeneratedCode(code) ==
  LET cleaned == RemoveHereIs(Trim(code))
      lastClosingBrace == LastBrace(cleaned, Len(cleaned))
  IN Trim(IF lastClosingBrace # 0
          THEN SubSeq(cleaned, 1, lastClosingBrace - 1)
                 \o <<ThroughBrace(cleaned[lastClosingBrace])>>
          ELSE cleaned)

\* codePatterns, in the order of the array: what each pattern matches
codePatterns == <<"REQUIRE", "IMPORT", "TEST", "DESCRIBE">>

\* for (const pattern of codePatterns) { const match = response.match(pattern)
\* ...: match.index of the first pattern, from the k-th on, that matches
RECURSIVE PatternStart(_, _)
PatternStart(response, k) ==
  IF k > Len(codePatterns) THEN 0
  ELSE IF Includes(response, codePatterns[k])
       THEN IndexFrom(response, codePatterns[k], 1)
       ELSE PatternStart(response, k + 1)

extractJavaScriptCode(response) ==
  LET codeBlockMatch == FencedBlocks(response, 1, {"JS"})
      startIndex == PatternStart(response, 1)
  IN IF Len(codeBlockMatch) > 0 THEN Trim(Head(codeBlockMatch))
     ELSE IF startIndex # 0
          THEN cleanGeneratedCode(SubSeq(response, startIndex, Len(response)))
          ELSE cleanGeneratedCode(response)

(***************************************************************************)
(* validateGeneratedCode: "ok", or the reason of the Error it throws.      *)
(***************************************************************************)
\* /(?:import|require).*playwright/
hasPlaywrightImport(code) == Includes(code, "IMPORT") \/ Includes(code, "REQUIRE")

\* a variant whose pattern leaves describe( out
hasTestStructureTestOnly(code) == Includes(code, "TEST")

\* /(?:test|describe)\(/
hasTestStructure(code) == Includes(code, "TEST") \/ Includes(code, "DESCRIBE")

validateGeneratedCode(code) ==
  IF ~hasPlaywrightImport(code) THEN "NoPlaywrightImport"
  ELSE IF ~hasTestStructure(code) THEN "NoTestStructure"
  ELSE "ok"

\* no call of the validator yet
NoVerdict == [threw |-> FALSE, value |-> "none", message |-> "none"]

\* a variant that reports an invalid candidate in its return value
ValidateCallReturning(code) ==
  LET reason == validateGeneratedCode(code)
  IN IF reason = "ok"
     THEN [threw |-> FALSE, value |-> "true", message |-> "none"]
     ELSE [threw |-> FALSE, value |-> "false", message |-> reason]

\* how a call of validateGeneratedCode ends: return true, or throw new Error
ValidateCall(code) ==
  LET reason == validateGeneratedCode(code)
  IN IF reason = "ok"
     THEN [threw |-> FALSE, value |-> "true", message |-> "none"]
     ELSE [threw |-> TRUE, value |-> "none", message |-> reason]

(***************************************************************************)
(* Provider boundary.                                                      *)
(***************************************************************************)
Variants == {"GEN", "DBG", "OAI", "PPX"}

RepairVariants == {"DBG", "OAI", "PPX"}

\* what process.env holds for the variant's API key variable
EnvKeys == {"unset", "empty", "placeholder", "real"}

\* the right operand of `process.env.X || ...`
FallbackKey(v) == IF v = "OAI" THEN "placeholder" ELSE "hardcoded"

\* const X_API_KEY = process.env.X_API_KEY || <fallback>
ResolveKey(v, env) == IF env \in {"unset", "empty"} THEN FallbackKey(v) ELSE env

\* if (!PERPLEXITY_API_KEY) { ...; process.exit(1) } at module load
ModuleKeyMissing(v, key) == v # "OAI" /\ key \in {"unset", "empty"}

\* callOpenAI: if (!apiKey || apiKey === 'YOUR_OPENAI_API_KEY_HERE') throw
CallKeyMissing(v, key) == v = "OAI" /\ key \in {"unset", "empty", "placeholder"}

\* replies of the model the runs are tried on
SampleReplies ==
  { <<"IMPORT", "NL", "TEST", "RBRACE">>,
    <<"PROSE", "SP", "PROSE">>,
    <<"TEST", "RBRACE">>,
    <<"IMPORT", "NL", "PROSE">>,
    <<"FENCE", "JS", "NL", "IMPORT", "NL", "TEST", "RBRACE", "NL", "FENCE">>,
    <<"PROSE", "NL", "FENCE", "TS", "NL", "IMPORT", "TEST", "RBRACE", "FENCE">>,
    <<"SP">>,
    <<>> }

Statuses == {401, 403, 404, 429, 500, 503}

NoText == <<>>

NoResponse == [kind |-> "none", status |-> 0, text |-> NoText]

\* what the HTTP layer hands back to one POST
Responses ==
  [kind : {"ok"}, status : {200}, text : SampleReplies]
    \cup [kind : {"http"}, status : Statuses, text : {NoText}]
    \cup [kind : {"malformed"}, status : {200}, text : {NoText}]
    \cup [kind : {"transport"}, status : {0}, text : {NoText}]

Returned(code) == [ok |-> TRUE, code |-> code, error |-> "none"]

Thrown(e) == [ok |-> FALSE, code |-> NoText, error |-> e]

\* the catch block of the three axios clients
PerplexityError(resp) ==
  IF resp.kind = "http"
  THEN IF resp.status = 401 \/ resp.status = 403 THEN "AuthFailed"
       ELSE IF resp.status = 429 THEN "RateLimited"
       ELSE IF resp.status = 500 THEN "ProviderServerError"
       ELSE "ProviderError"
  ELSE "ProviderError"

\* generate_test.js: the outcome of one call, given the response
generatePlaywrightCode(resp) ==
  IF resp.kind = "ok" THEN Returned(extractCodeFromMarkdown(resp.text))
  ELSE Thrown(PerplexityError(resp))

\* debug_test.js
callPerplexity(resp) ==
  IF resp.kind = "ok" THEN Returned(cleanCorrectedCode(resp.text))
  ELSE Thrown(PerplexityError(resp))

\* unnamed/part_000
callPerplexityAPI(resp) ==
  IF resp.kind = "ok" THEN Returned(extractCodeFromResponse(resp.text))
  ELSE Thrown(PerplexityError(resp))

\* playwright.config.js, after the key check: fetch rejects on a transport
\* failure and nothing wraps it; !res.ok and empty content throw
callOpenAI(resp) ==
  IF resp.kind = "transport" THEN Thrown("TransportException")
  ELSE IF resp.kind = "http" THEN Thrown("ProviderError")
  ELSE IF resp.kind = "malformed" \/ resp.text = <<>>
       THEN Thrown("ProviderMalformedResponse")
  ELSE Returned(Trim(resp.text))

\* a client that posts again when its first POST fails
SendPostsRetrying(sent, key, resp) ==
  IF resp.kind = "ok" THEN Append(sent, key) ELSE Append(Append(sent, key), key)

\* the one axios.post / fetch of a client call: the POSTs sent so far, and
\* this one with its key
SendPosts(sent, key, resp) == Append(sent, key)

CallProvider(v, resp) ==
  CASE v = "GEN" -> generatePlaywrightCode(resp)
    [] v = "DBG" -> callPerplexity(resp)
    [] v = "OAI" -> callOpenAI(resp)
    [] v = "PPX" -> callPerplexityAPI(resp)

(***************************************************************************)
(* State.                                                                  *)
(***************************************************************************)
VARIABLES
  fs,           \* the filesystem: path -> content, for the files that exist
  clock,        \* <<second, millisecond>> last read from Date
  started,      \* runs started so far
  pc,           \* per process: where its run stands
  variant,      \* per process: the script it runs
  args,         \* per process: parseArgs' result
  apiKey,       \* per process: the module's *_API_KEY constant
  testContent,  \* per process: the first input read
  logContent,   \* per process: the second input read
  fixedContent, \* per process: the provider client's result
  posts,        \* per process: the keys of the POSTs sent, in order
  reply,        \* per process: the response its POST got
  backupPath,   \* per process: the backup written
  wrote,        \* per process: calls of writeFile on the target
  printed,      \* per process: what went to the console
  err,          \* per process: the error that ended the run
  exitCode,     \* per process: the exit code, -1 while running
  journal,      \* one record per backup attempted, in order: script, time,
                \* path, the target's content, whether the target was overwritten
  rcPc,         \* retry controller: Pending, Attempting, ..., Success, Exhausted
  maxRetries,   \* retry controller: its maxRetries parameter
  attempt,      \* retry controller: the loop variable
  lastError,    \* retry controller: lastError, "undefined" until a failure
  rcInvoked,    \* retry controller: calls of generatePlaywrightCode so far
  rcPosts,      \* retry controller: the keys of the POSTs sent, in order
  rcDelays,     \* retry controller: one-second waits so far
  rcLog,        \* retry controller: one record per attempt made
  rcResult,     \* retry controller: the value returned
  rcThrown,     \* retry controller: the error thrown to the caller
  rawReply,     \* text functions: the string a function is called with
  applied,      \* text functions: the function called, "none" before
  candidate,    \* text functions: the string returned
  validation    \* text functions: how the call of the validator ended

pvars == <<fs, clock, started, pc, variant, args, apiKey, testContent,
           logContent, fixedContent, posts, reply, backupPath, wrote, printed,
           err, exitCode, journal>>

tvars == <<rawReply, applied, candidate, validation>>

\* no text function called
IdleText ==
  /\ rawReply = NoText
  /\ applied = "none"
  /\ candidate = NoText
  /\ validation = NoVerdict

\* the processes that may run a script
Procs == {"p1", "p2"}

TestFile == [name |-> "test", kind |-> "file", ts |-> <<0, 0>>]

LogFile == [name |-> "log", kind |-> "file", ts |-> <<0, 0>>]

\* INPUT_FILE and OUTPUT_FILE of generate_test.js
InputFile == [name |-> "login.txt", kind |-> "file", ts |-> <<0, 0>>]

OutputFile == [name |-> "login.spec.js", kind |-> "file", ts |-> <<0, 0>>]

OriginalTest == <<"IMPORT", "NL", "TEST", "PROSE", "RBRACE">>

FailureLog == <<"PROSE", "NL", "PROSE">>

Description == <<"PROSE">>

Unread == <<"SP", "SP", "SP">>

NoPath == [name |-> "none", kind |-> "none", ts |-> <<0, 0>>]

\* the readings of Date: millisecond ticks 0..MaxTick, MaxMs + 1 of them to
\* the second, as <<second, millisecond>>
Times == {<<t \div (MaxMs + 1), t % (MaxMs + 1)>> : t \in 0..MaxTick}

NotBefore(t, u) == t[1] > u[1] \/ (t[1] = u[1] /\ t[2] >= u[2])

\* debug_test.js backupFile: `${filePath}.backup.${timestamp}`, the ISO
\* string with its milliseconds
backupFileDBG(now) == [name |-> "test", kind |-> "DBG", ts |-> now]

\* playwright.config.js timestamp(): year .. seconds
timestamp(now) == <<now[1], 0>>

backupFileOAI(now) == [name |-> "test", kind |-> "OAI", ts |-> timestamp(now)]

\* unnamed/part_000: toISOString().replace(/[:.]/g, '-').slice(0, -5)
createBackupPath(now) == [name |-> "test", kind |-> "PPX", ts |-> <<now[1], 0>>]

\* a variant that names the backup without a timestamp
BackupPathUnstamped(v, now) == [name |-> "test", kind |-> v, ts |-> <<0, 0>>]

BackupPathOf(v, now) ==
  CASE v = "DBG" -> backupFileDBG(now)
    [] v = "OAI" -> backupFileOAI(now)
    [] v = "PPX" -> createBackupPath(now)

TargetOf(v) == IF v = "GEN" THEN OutputFile ELSE TestFile

Exists(f, p) == p \in DOMAIN f

\* f with path p holding content c
WriteTo(f, p, c) == [q \in DOMAIN f \cup {p} |-> IF q = p THEN c ELSE f[q]]

\* what the command line holds
CommandLines ==
  [test : BOOLEAN, log : BOOLEAN, backupFlag : {"none", "--backup", "--no-backup"},
   dryRun : BOOLEAN, help : BOOLEAN]

parseArgs(cl) ==
  [testPath |-> cl.test, logPath |-> cl.log,
   backup |-> (cl.backupFlag # "--no-backup"), dryRun |-> cl.dryRun,
   help |-> cl.help]

\* generate_test.js takes no arguments: fixed paths, no backup, no dry run
NoArgs ==
  [testPath |-> TRUE, logPath |-> TRUE, backup |-> FALSE, dryRun |-> FALSE,
   help |-> FALSE]

IdleProc ==
  /\ pc = [r \in Procs |-> "idle"]
  /\ variant = [r \in Procs |-> "GEN"]
  /\ args = [r \in Procs |-> NoArgs]
  /\ apiKey = [r \in Procs |-> "unset"]
  /\ testContent = [r \in Procs |-> Unread]
  /\ logContent = [r \in Procs |-> Unread]
  /\ fixedContent = [r \in Procs |-> NoText]
  /\ posts = [r \in Procs |-> <<>>]
  /\ reply = [r \in Procs |-> NoResponse]
  /\ backupPath = [r \in Procs |-> NoPath]
  /\ wrote = [r \in Procs |-> 0]
  /\ printed = [r \in Procs |-> {}]
  /\ err = [r \in Procs |-> "none"]
  /\ exitCode = [r \in Procs |-> -1]

\* the files a run may find: each input present or not, no output yet
InitialFiles ==
  { [p \in present |->
       CASE p = TestFile -> OriginalTest
         [] p = LogFile -> FailureLog
         [] p = InputFile -> Description] :
    present \in SUBSET {TestFile, LogFile, InputFile} }

InitPipeline ==
  /\ fs \in InitialFiles
  /\ journal = <<>>
  /\ clock = <<0, 0>>
  /\ started = 0
  /\ IdleProc

(***************************************************************************)
(* Retry controller: generatePlaywrightCodeWithRetry.                      *)
(***************************************************************************)
rvars == <<rcPc, maxRetries, attempt, lastError, rcInvoked, rcPosts, rcDelays,
           rcLog, rcResult, rcThrown>>

vars == <<pvars, rvars, tvars>>

DefaultMaxRetries == 3

\* maxRetries = 3 when the argument is left out
EffectiveMaxRetries(given, arg) == IF given THEN arg ELSE DefaultMaxRetries

NothingThrown == [name |-> "none", attempts |-> 0, lastReason |-> "none"]

IdleRetry ==
  /\ rcPc = "Pending"
  /\ attempt = 0
  /\ lastError = "undefined"
  /\ rcInvoked = 0
  /\ rcPosts = <<>>
  /\ rcDelays = 0
  /\ rcLog = <<>>
  /\ rcResult = NoText
  /\ rcThrown = NothingThrown

InitRetry ==
  /\ \E given \in BOOLEAN, arg \in 0..MaxRetriesArg :
       maxRetries = EffectiveMaxRetries(given, arg)
  /\ IdleRetry

(***************************************************************************)
(* Pipeline runs.                                                          *)
(***************************************************************************)
\* the run of process r ends with exit code c and error e
End(r, c, e) ==
  /\ pc' = [pc EXCEPT ![r] = "done"]
  /\ exitCode' = [exitCode EXCEPT ![r] = c]
  /\ err' = [err EXCEPT ![r] = e]

\* node <script> ...: the module's constants, then parseArgs
\* at most limit runs, of the scripts vs, with the environments envs and the
\* command lines cls
LaunchWith(r, limit, vs, envs, cls) ==
  /\ pc[r] = "idle"
  /\ started < limit
  /\ started' = started + 1
  /\ \E v \in vs, env \in envs, cl \in cls :
       LET key == ResolveKey(v, env)
       IN /\ variant' = [variant EXCEPT ![r] = v]
          /\ apiKey' = [apiKey EXCEPT ![r] = key]
          /\ args' = [args EXCEPT ![r] = IF v = "GEN" THEN NoArgs ELSE parseArgs(cl)]
          /\ IF ModuleKeyMissing(v, key)
             THEN End(r, 1, "CredentialMissing")
             ELSE /\ pc' = [pc EXCEPT ![r] = "main"]
                  /\ UNCHANGED <<exitCode, err>>
  /\ UNCHANGED <<fs, clock, testContent, logContent, fixedContent, posts, reply,
                 backupPath, wrote, printed, journal, rvars, tvars>>

Launch(r) == LaunchWith(r, MaxRuns, Variants, EnvKeys, CommandLines)

\* one invocation at a time on the machine
Start(r) ==
  /\ \A q \in Procs \ {r} : pc[q] = "idle"
  /\ Launch(r)

\* a variant that exits 0 whenever it prints the usage
UsageExitCodeZero(a) == 0

\* process.exit(args.help ? 0 : 1)
UsageExitCode(a) == IF a.help THEN 0 ELSE 1

\* main: help and required arguments
CheckArgs(r) ==
  /\ pc[r] = "main"
  /\ IF variant[r] = "GEN"
     THEN /\ pc' = [pc EXCEPT ![r] = "read"]
          /\ UNCHANGED <<exitCode, err, printed>>
     ELSE IF args[r].help \/ ~args[r].testPath \/ ~args[r].logPath
     THEN /\ printed' = [printed EXCEPT ![r] = @ \cup {"usage"}]
          /\ End(r, UsageExitCode(args[r]),
                 IF args[r].help THEN "none" ELSE "UsageError")
     ELSE /\ pc' = [pc EXCEPT ![r] = "read"]
          /\ UNCHANGED <<exitCode, err, printed>>
  /\ UNCHANGED <<fs, clock, started, variant, args, apiKey, testContent,
                 logContent, fixedContent, posts, reply, backupPath, wrote, journal, rvars, tvars>>

\* access(filePath, R_OK) / readFileSync succeeds
Readable(f, p) == Exists(f, p)

\* a variant that checks only its first input
InputsOfFirstOnly(v) == IF v = "GEN" THEN <<InputFile>> ELSE <<TestFile>>

\* the inputs the variant reads before it calls the provider
InputsOf(v) == IF v = "GEN" THEN <<InputFile>> ELSE <<TestFile, LogFile>>

\* readTestInput / ensureReadable + readFile / safeReadFile
ReadInputs(r) ==
  /\ pc[r] = "read"
  /\ LET ins == InputsOf(variant[r])
     IN IF \A i \in 1..Len(ins) : Readable(fs, ins[i])
        THEN /\ testContent' = [testContent EXCEPT ![r] = fs[ins[1]]]
             /\ logContent' =
                  [logContent EXCEPT ![r] = IF Len(ins) > 1 THEN fs[ins[2]] ELSE @]
             /\ pc' = [pc EXCEPT ![r] = "call"]
             /\ UNCHANGED <<exitCode, err>>
        ELSE /\ End(r, 1, "InputNotFound")
             /\ UNCHANGED <<testContent, logContent>>
  /\ UNCHANGED <<fs, clock, started, variant, args, apiKey, fixedContent, posts, reply,
                 backupPath, wrote, printed, journal, rvars, tvars>>

\* a variant that skips the backup branch
NextAfterCallNoBackup(v, a) ==
  IF v = "GEN" THEN "write"
  ELSE IF a.dryRun THEN "dryrun"
  ELSE "write"

\* a variant that skips the dry-run branch
NextAfterCallNoDryRun(v, a) ==
  IF v = "GEN" THEN "write"
  ELSE IF a.backup THEN "backup"
  ELSE "write"

\* what follows a provider result in generateTest / generateFix / main
NextAfterCall(v, a) ==
  IF v = "GEN" THEN "write"
  ELSE IF a.dryRun THEN "dryrun"
  ELSE IF a.backup THEN "backup"
  ELSE "write"

\* generatePlaywrightCode / callPerplexity / callOpenAI / callPerplexityAPI
InvokeWith(r, resps) ==
  /\ pc[r] = "call"
  /\ IF CallKeyMissing(variant[r], apiKey[r])
     THEN /\ End(r, 1, "CredentialMissing")
          /\ UNCHANGED <<posts, reply, fixedContent>>
     ELSE \E resp \in resps :
            LET o == CallProvider(variant[r], resp)
            IN /\ posts' = [posts EXCEPT ![r] = SendPosts(@, apiKey[r], resp)]
               /\ reply' = [reply EXCEPT ![r] = resp]
               /\ IF o.ok
                  THEN /\ fixedContent' = [fixedContent EXCEPT ![r] = o.code]
                       /\ pc' = [pc EXCEPT ![r] = NextAfterCall(variant[r], args[r])]
                       /\ UNCHANGED <<exitCode, err>>
                  ELSE /\ End(r, 1, o.error)
                       /\ UNCHANGED fixedContent
  /\ UNCHANGED <<fs, clock, started, variant, args, apiKey, testContent,
                 logContent, backupPath, wrote, printed, journal, rvars, tvars>>

Invoke(r) == InvokeWith(r, Responses)

\* if (dryRun) { console.log(fixedContent) ... }
DryRun(r) ==
  /\ pc[r] = "dryrun"
  /\ printed' = [printed EXCEPT ![r] = @ \cup {"candidate"}]
  /\ End(r, 0, "none")
  /\ UNCHANGED <<fs, clock, started, variant, args, apiKey, testContent,
                 logContent, fixedContent, posts, reply, backupPath, wrote, journal, rvars, tvars>>

\* a variant that swallows a rejected copyFile
AfterBackupSwallowed(outcome) == "write"

\* where the run goes when copyFile resolves ("ok") or rejects
AfterBackup(outcome) == IF outcome = "ok" THEN "write" ELSE "done"

\* a variant that backs up the content the run read at its start
BackupSourceAsRead(f, read) == read

\* copyFile(testPath, backupPath): what the copy holds is what the target
\* holds when the copy is made
BackupSource(f, read) == f[TestFile]

\* backupFile / createBackupPath + copyFile.  A copy that fails leaves no
\* destination, or one that is not the whole source.
Backup(r) ==
  /\ pc[r] = "backup"
  /\ \E now \in Times, outcome \in {"ok", "fail", "partial"} :
       LET dest == BackupPathOf(variant[r], now)
           done == outcome = "ok" /\ Exists(fs, TestFile)
       IN /\ NotBefore(now, clock)
          /\ clock' = now
          /\ fs' = IF done
                   THEN WriteTo(fs, dest, BackupSource(fs, testContent[r]))
                   ELSE IF outcome = "partial" THEN WriteTo(fs, dest, NoText)
                   ELSE fs
          /\ backupPath' = [backupPath EXCEPT ![r] = IF done THEN dest ELSE @]
          /\ journal' = Append(journal,
                               [by |-> variant[r], at |-> now, bak |-> dest,
                                pre |-> IF Exists(fs, TestFile)
                                        THEN fs[TestFile] ELSE NoText,
                                overwritten |-> FALSE])
          /\ IF AfterBackup(IF done THEN "ok" ELSE "fail") = "write"
             THEN /\ pc' = [pc EXCEPT ![r] = "write"]
                  /\ UNCHANGED <<exitCode, err>>
             ELSE End(r, 1, "BackupFailed")
  /\ UNCHANGED <<started, variant, args, apiKey, testContent, logContent,
                 fixedContent, posts, reply, wrote, printed, rvars, tvars>>

\* the last record of path b in journal j, 0 when there is none
RECURSIVE LastRecordOf(_, _, _)
LastRecordOf(j, b, i) ==
  IF i = 0 THEN 0
  ELSE IF j[i].bak = b THEN i ELSE LastRecordOf(j, b, i - 1)

\* the run that backed the target up to b is overwriting the target, which
\* holds f[TestFile]
MarkOverwritten(j, b, f) ==
  LET i == LastRecordOf(j, b, Len(j))
  IN IF i = 0 THEN j
     ELSE [j EXCEPT ![i] = [by |-> j[i].by, at |-> j[i].at, bak |-> b,
                            pre |-> f[TestFile], overwritten |-> TRUE]]

\* writeFile(testPath, fixedContent) / saveTestOutput.  A write that fails
\* leaves the target as it was, or opened and cut short.
Write(r) ==
  /\ pc[r] = "write"
  /\ wrote' = [wrote EXCEPT ![r] = @ + 1]
  /\ journal' = MarkOverwritten(journal, backupPath[r], fs)
  /\ \E outcome \in {"ok", "fail", "truncated"} :
       LET target == TargetOf(variant[r])
       IN IF outcome = "ok"
          THEN /\ fs' = WriteTo(fs, target, fixedContent[r])
               /\ End(r, 0, "none")
          ELSE /\ fs' = IF outcome = "truncated" THEN WriteTo(fs, target, NoText)
                        ELSE fs
               /\ End(r, 1, "WriteFailed")
  /\ UNCHANGED <<clock, started, variant, args, apiKey, testContent, logContent,
                 fixedContent, posts, reply, backupPath, printed, rvars, tvars>>

\* the process is gone; the files stay
Finish(r) ==
  /\ pc[r] = "done"
  /\ pc' = [pc EXCEPT ![r] = "idle"]
  /\ variant' = [variant EXCEPT ![r] = "GEN"]
  /\ args' = [args EXCEPT ![r] = NoArgs]
  /\ apiKey' = [apiKey EXCEPT ![r] = "unset"]
  /\ testContent' = [testContent EXCEPT ![r] = Unread]
  /\ logContent' = [logContent EXCEPT ![r] = Unread]
  /\ fixedContent' = [fixedContent EXCEPT ![r] = NoText]
  /\ posts' = [posts EXCEPT ![r] = <<>>]
  /\ reply' = [reply EXCEPT ![r] = NoResponse]
  /\ backupPath' = [backupPath EXCEPT ![r] = NoPath]
  /\ wrote' = [wrote EXCEPT ![r] = 0]
  /\ printed' = [printed EXCEPT ![r] = {}]
  /\ err' = [err EXCEPT ![r] = "none"]
  /\ exitCode' = [exitCode EXCEPT ![r] = -1]
  /\ UNCHANGED <<fs, clock, started, journal, rvars, tvars>>

Next ==
  \E r \in Procs :
    \/ Start(r)
    \/ CheckArgs(r)
    \/ ReadInputs(r)
    \/ Invoke(r)
    \/ DryRun(r)
    \/ Backup(r)
    \/ Write(r)
    \/ Finish(r)

Init ==
  /\ InitPipeline
  /\ IdleRetry
  /\ maxRetries = DefaultMaxRetries
  /\ IdleText

Spec == Init /\ [][Next]_vars

(***************************************************************************)
(* Repair runs on one target: one after the other, and side by side.       *)
(***************************************************************************)
MaxSeqRuns == 2

\* --test <path> --log <path>, with the backup left on, no --dry-run
BackupCommandLines ==
  {cl \in CommandLines :
     cl.test /\ cl.log /\ cl.backupFlag # "--no-backup" /\ ~cl.dryRun /\ ~cl.help}

\* what the provider answers in these runs: three different candidates, a
\* rate limit, a connection that fails
RepairResponses ==
  {resp \in Responses :
     \/ /\ resp.kind = "ok"
        /\ resp.text \in { <<"IMPORT", "NL", "TEST", "RBRACE">>,
                           <<"TEST", "RBRACE">>,
                           <<"PROSE", "SP", "PROSE">> }
     \/ resp.kind = "http" /\ resp.status = 429
     \/ resp.kind = "transport"}

InvokeRepair(r) == InvokeWith(r, RepairResponses)

\* test file and log on disk, nothing run yet
InitRepair ==
  /\ fs \in {f \in InitialFiles : DOMAIN f = {TestFile, LogFile}}
  /\ journal = <<>>
  /\ clock = <<0, 0>>
  /\ started = 0
  /\ IdleProc
  /\ IdleRetry
  /\ maxRetries = DefaultMaxRetries
  /\ IdleText

\* a repair script started once the one before has exited
StartRepair(r) ==
  /\ \A q \in Procs \ {r} : pc[q] = "idle"
  /\ LaunchWith(r, MaxSeqRuns, RepairVariants, {"real"}, BackupCommandLines)

NextSeq ==
  \E r \in Procs :
    \/ StartRepair(r)
    \/ CheckArgs(r)
    \/ ReadInputs(r)
    \/ InvokeRepair(r)
    \/ Backup(r)
    \/ Write(r)
    \/ Finish(r)

SpecSeq == InitRepair /\ [][NextSeq]_vars

\* a repair script started whatever the other process is doing
LaunchRepair(r) ==
  LaunchWith(r, Cardinality(Procs), RepairVariants, {"real"}, BackupCommandLines)

NextConc ==
  \E r \in Procs :
    \/ LaunchRepair(r)
    \/ CheckArgs(r)
    \/ ReadInputs(r)
    \/ InvokeRepair(r)
    \/ Backup(r)
    \/ Write(r)

SpecConc == InitRepair /\ [][NextConc]_vars

(***************************************************************************)
(* Retry controller steps.                                                 *)
(***************************************************************************)
\* a variant that returns the code without validating it
AttemptVerdictUnvalidated(o) == IF o.ok THEN "ok" ELSE o.error

\* what one pass of the try block ends with: "ok", or the message caught
AttemptVerdict(o) == IF o.ok THEN validateGeneratedCode(o.code) ELSE o.error

\* a variant that waits after every failed attempt
DelayAfterEveryFailure(a, m) == TRUE

\* if (attempt < maxRetries) { ...; await setTimeout(1000) }
DelayAfterFailure(a, m) == a < m

\* for (let attempt = 1; ...
RetryEnter ==
  /\ rcPc = "Pending"
  /\ attempt' = 1
  /\ rcPc' = "Loop"
  /\ UNCHANGED <<maxRetries, lastError, rcInvoked, rcPosts, rcDelays, rcLog, rcResult,
                 rcThrown, pvars, tvars>>

\* a variant with the loop test off by one
LoopContinuesStrict(a, m) == a < m

\* attempt <= maxRetries
LoopContinues(a, m) == a <= m

\* the loop test, and the throw after the loop; lastError.message of an
\* undefined lastError is a TypeError
RetryTest ==
  /\ rcPc = "Loop"
  /\ IF LoopContinues(attempt, maxRetries)
     THEN /\ rcPc' = "Attempting"
          /\ UNCHANGED rcThrown
     ELSE IF lastError = "undefined"
     THEN /\ rcPc' = "Crashed"
          /\ rcThrown' = [name |-> "TypeError", attempts |-> 0, lastReason |-> "none"]
     ELSE /\ rcPc' = "Exhausted"
          /\ rcThrown' = [name |-> "GenerationFailed", attempts |-> maxRetries,
                          lastReason |-> lastError]
  /\ UNCHANGED <<maxRetries, attempt, lastError, rcInvoked, rcPosts, rcDelays, rcLog,
                 rcResult, pvars, tvars>>

\* the try block and the head of the catch block
RetryAttempt ==
  /\ rcPc = "Attempting"
  /\ \E resp \in Responses :
       LET o == generatePlaywrightCode(resp)
           verdict == AttemptVerdict(o)
       IN /\ rcInvoked' = rcInvoked + 1
          /\ rcPosts' = SendPosts(rcPosts, "real", resp)
          /\ rcLog' = Append(rcLog, [attemptNumber |-> attempt, error |-> verdict,
                                     code |-> o.code])
          /\ IF verdict = "ok"
             THEN /\ rcResult' = o.code
                  /\ rcPc' = "Success"
                  /\ UNCHANGED lastError
             ELSE /\ lastError' = verdict
                  /\ rcPc' = IF DelayAfterFailure(attempt, maxRetries)
                             THEN "Delay" ELSE "Increment"
                  /\ UNCHANGED rcResult
  /\ UNCHANGED <<maxRetries, attempt, rcDelays, rcThrown, pvars, tvars>>

\* await new Promise(resolve => setTimeout(resolve, 1000))
RetryDelay ==
  /\ rcPc = "Delay"
  /\ rcDelays' = rcDelays + 1
  /\ rcPc' = "Increment"
  /\ UNCHANGED <<maxRetries, attempt, lastError, rcInvoked, rcPosts, rcLog, rcResult,
                 rcThrown, pvars, tvars>>

\* attempt++
RetryIncrement ==
  /\ rcPc = "Increment"
  /\ attempt' = attempt + 1
  /\ rcPc' = "Loop"
  /\ UNCHANGED <<maxRetries, lastError, rcInvoked, rcPosts, rcDelays, rcLog, rcResult,
                 rcThrown, pvars, tvars>>

NextRetry ==
  \/ RetryEnter
  \/ RetryTest
  \/ RetryAttempt
  \/ RetryDelay
  \/ RetryIncrement

\* the retry controller alone, every input present on disk
InitRetryAlone ==
  /\ InitRetry
  /\ fs \in {f \in InitialFiles : DOMAIN f = {TestFile, LogFile, InputFile}}
  /\ clock = <<0, 0>>
  /\ started = 0
  /\ journal = <<>>
  /\ IdleProc
  /\ IdleText

SpecRetry == InitRetryAlone /\ [][NextRetry]_vars

(***************************************************************************)
(* The text functions, each called on a reply.                             *)
(***************************************************************************)
MaxTextLen == 3

\* every text of up to MaxTextLen tokens
ShortTexts == UNION {[1..n -> Tokens] : n \in 0..MaxTextLen}

\* ```<tag>\n<body>```
Block(tag, body) == <<"FENCE">> \o tag \o <<"NL">> \o body \o <<"FENCE">>

Tags == {<<>>, <<"JS">>, <<"TS">>}

Bodies ==
  { <<"IMPORT", "NL", "TEST", "RBRACE", "NL">>,
    <<"TEST", "RBRACE">>,
    <<"PROSE", "NL">>,
    <<"REQUIRE", "NL", "DESCRIBE", "TEST", "RBRACE", "RBRACE", "NL">> }

Leads == {<<>>, <<"HERE", "NL">>, <<"PROSE", "NL">>}

Betweens == {<<>>, <<"NL", "PROSE", "NL">>}

Trails == {<<>>, <<"NL", "PROSE">>}

\* replies with one fenced block, and with two
OneBlockReplies ==
  {l \o Block(t, b) \o e : l \in Leads, t \in Tags, b \in Bodies, e \in Trails}

TwoBlockReplies ==
  {r \o m \o Block(t, b) \o e :
     r \in OneBlockReplies, m \in Betweens, t \in Tags, b \in Bodies, e \in {<<>>}}

\* replies without a fence: code between prose
Codes ==
  { <<"IMPORT", "NL", "TEST", "RBRACE">>,
    <<"DESCRIBE", "TEST", "RBRACE", "RBRACE">>,
    <<"TEST", "RBRACE", "NL", "REQUIRE">>,
    <<"IMPORT", "NL", "TEST">>,
    <<"PROSE", "RBRACE">> }

UnfencedReplies == {l \o c \o e : l \in Leads, c \in Codes, e \in Trails}

RawReplies ==
  ShortTexts \cup OneBlockReplies \cup TwoBlockReplies \cup UnfencedReplies

InitText ==
  /\ rawReply \in RawReplies
  /\ applied = "none"
  /\ candidate = NoText
  /\ validation = NoVerdict
  /\ fs \in {f \in InitialFiles : DOMAIN f = {TestFile, LogFile, InputFile}}
  /\ clock = <<0, 0>>
  /\ started = 0
  /\ journal = <<>>
  /\ IdleProc
  /\ IdleRetry
  /\ maxRetries = DefaultMaxRetries

\* the call fn(rawReply) returns out
Returns(fn, out) ==
  /\ applied = "none"
  /\ applied' = fn
  /\ candidate' = out
  /\ UNCHANGED <<rawReply, validation, pvars, rvars>>

ApplyExtractCodeFromMarkdown ==
  Returns("extractCodeFromMarkdown", extractCodeFromMarkdown(rawReply))

ApplyCleanGeneratedCode ==
  Returns("cleanGeneratedCode", cleanGeneratedCode(rawReply))

ApplyExtractJavaScriptCode ==
  Returns("extractJavaScriptCode", extractJavaScriptCode(rawReply))

\* debug_test.js callPerplexity, from the content of the response on
ApplyCleanCorrectedCode ==
  Returns("callPerplexity", cleanCorrectedCode(rawReply))

ApplyExtractCodeFromResponse ==
  Returns("extractCodeFromResponse", extractCodeFromResponse(rawReply))

\* playwright.config.js callOpenAI: return content.trim()
ApplyContentTrim == Returns("callOpenAI", Trim(rawReply))

ApplyValidateGeneratedCode ==
  /\ applied = "none"
  /\ applied' = "validateGeneratedCode"
  /\ validation' = ValidateCall(rawReply)
  /\ UNCHANGED <<rawReply, candidate, pvars, rvars>>

NextText ==
  \/ ApplyExtractCodeFromMarkdown
  \/ ApplyCleanGeneratedCode
  \/ ApplyExtractJavaScriptCode
  \/ ApplyCleanCorrectedCode
  \/ ApplyExtractCodeFromResponse
  \/ ApplyContentTrim
  \/ ApplyValidateGeneratedCode

SpecText == InitText /\ [][NextText]_vars

(***************************************************************************)
(* Properties.                                                             *)
(***************************************************************************)
\* a run of process r is under way or has just ended
Active(r) == pc[r] # "idle"

\* a repair run that was asked to back up and is not a dry run
BackupRun(r) ==
  /\ Active(r)
  /\ variant[r] \in RepairVariants
  /\ args[r].backup
  /\ ~args[r].dryRun

\* the run got past the help / required-argument check
PastArgs(r) == pc[r] \notin {"idle", "main"} /\ "usage" \notin printed[r]

\* C1: in every run the target is written at most once, and only a candidate
\* that passes the structural validator (import and test/describe call
\* present) is written; the scripts have no setting that bypasses validation.
\* Stated for the runs that carry the operator's own key.
C1_WriteOnlyValidated ==
  \A r \in Procs :
    /\ wrote[r] <= 1
    /\ (wrote[r] > 0 /\ apiKey[r] = "real") =>
         validateGeneratedCode(fixedContent[r]) = "ok"

\* C2: in a non-dry-run repair run with backup requested the copy to the
\* backup path is complete before the overwrite starts, and a failed copy
\* ends the run with an error, the target never written and still holding
\* the content the run read.
C2_BackupBeforeOverwrite ==
  \A r \in Procs :
    BackupRun(r) =>
      /\ (pc[r] = "write" \/ wrote[r] > 0) =>
           /\ backupPath[r] # NoPath
           /\ Exists(fs, backupPath[r])
           /\ err[r] # "BackupFailed"
      /\ err[r] = "BackupFailed" =>
           /\ pc[r] = "done"
           /\ exitCode[r] = 1
           /\ wrote[r] = 0
           /\ fs[TestFile] = testContent[r]

C2_Witness ==
  \E r \in Procs :
    /\ BackupRun(r)
    /\ err[r] = "BackupFailed"
    /\ fixedContent[r] # fs[TestFile]

\* C3: in a run with backup and without dry run on an existing target, at
\* every step that changes the target's content a backup file already holds
\* the content the target has before that step.
C3_BackupHoldsOriginal ==
  [][\A r \in Procs :
       (BackupRun(r) /\ Exists(fs, TestFile) /\ fs'[TestFile] # fs[TestFile]) =>
         /\ backupPath[r] # NoPath
         /\ Exists(fs, backupPath[r])
         /\ fs[backupPath[r]] = fs[TestFile]
         /\ fs[backupPath[r]] = testContent[r]]_vars

C3_Witness ==
  \E r \in Procs :
    /\ BackupRun(r)
    /\ pc[r] = "done"
    /\ wrote[r] = 1
    /\ fs[TestFile] # testContent[r]
    /\ fs[backupPath[r]] = testContent[r]

\* C4: while a dry run is under way no step changes the filesystem, for any
\* candidate and either value of the backup flag: the target is not written,
\* no backup is made, and a dry run that ends well has printed the candidate.
C4_DryRunNoMutation ==
  /\ [][(\E r \in Procs : Active(r) /\ variant[r] \in RepairVariants
                          /\ args[r].dryRun) => fs' = fs]_vars
  /\ [](\A r \in Procs :
          (Active(r) /\ variant[r] \in RepairVariants /\ args[r].dryRun) =>
            /\ wrote[r] = 0
            /\ backupPath[r] = NoPath
            /\ pc[r] \notin {"backup", "write"}
            /\ (pc[r] = "done" /\ err[r] = "none" /\ ~args[r].help) =>
                 (printed[r] = {"candidate"} /\ exitCode[r] = 0))

C4_Witness ==
  \E r \in Procs :
    /\ variant[r] \in RepairVariants
    /\ args[r].dryRun
    /\ args[r].backup
    /\ pc[r] = "done"
    /\ printed[r] = {"candidate"}
    /\ fixedContent[r] # fs[TestFile]

\* the attempts before the last one in the log all failed
EarlierAttemptsFailed ==
  \A i \in 1..(Len(rcLog) - 1) : rcLog[i].error # "ok"

\* C5: when attempts 1..k-1 fail and attempt k yields a candidate that passes
\* validation, the controller returns that candidate after exactly k provider
\* calls, with attempt = k, and calls the provider no more.
C5_ReturnsFirstValid ==
  /\ EarlierAttemptsFailed
  /\ \A i \in 1..Len(rcLog) : rcLog[i].attemptNumber = i
  /\ (rcLog # <<>> /\ rcLog[Len(rcLog)].error = "ok") =>
       /\ rcPc = "Success"
       /\ rcInvoked = Len(rcLog)
       /\ attempt = Len(rcLog)
       /\ Len(rcLog) <= maxRetries
       /\ rcResult = rcLog[Len(rcLog)].code
       /\ validateGeneratedCode(rcResult) = "ok"
       /\ rcThrown = NothingThrown
  /\ rcPc = "Success" => (rcLog # <<>> /\ rcLog[Len(rcLog)].error = "ok")

C5_Witness ==
  /\ rcPc = "Success"
  /\ maxRetries = 3
  /\ attempt = 3
  /\ rcInvoked = 3
  /\ rcLog[1].error = "NoPlaywrightImport"
  /\ rcLog[2].error = "RateLimited"

\* C6: GenerationFailed is thrown only after exactly maxRetries attempts
\* (3 by default) have all failed; it carries maxRetries as the attempt count
\* and the reason of the last attempt, and is never thrown while an attempt
\* is still available.
C6_FailsOnlyWhenExhausted ==
  /\ EffectiveMaxRetries(FALSE, 0) = 3
  /\ (rcThrown.name = "GenerationFailed" \/ rcPc = "Exhausted") =>
       /\ rcPc = "Exhausted"
       /\ rcThrown.name = "GenerationFailed"
       /\ maxRetries >= 1
       /\ rcInvoked = maxRetries
       /\ Len(rcLog) = maxRetries
       /\ \A i \in 1..Len(rcLog) : rcLog[i].error # "ok"
       /\ rcThrown.attempts = maxRetries
       /\ rcThrown.lastReason = rcLog[maxRetries].error

C6_Witness ==
  /\ rcPc = "Exhausted"
  /\ maxRetries = 3
  /\ rcThrown.attempts = 3
  /\ rcLog[1].error # rcLog[3].error
  /\ rcThrown.lastReason = "NoTestStructure"

\* C7: in a pipeline run a failed attempt that is not the last is followed by
\* another provider call, so a run that ends after fewer calls than the bound
\* ended on a candidate that passed validation, and a run that fails on the
\* provider or the validator surfaces GenerationFailed.  Stated for the runs
\* that carry the operator's own key.
C7_PipelineRetries ==
  \A r \in Procs :
    (pc[r] = "done" /\ Len(posts[r]) >= 1 /\ apiKey[r] = "real") =>
      /\ Len(posts[r]) < DefaultMaxRetries =>
           (reply[r].kind = "ok" /\ validateGeneratedCode(fixedContent[r]) = "ok")
      /\ (reply[r].kind # "ok" \/ validateGeneratedCode(fixedContent[r]) # "ok") =>
           (err[r] = "GenerationFailed" /\ wrote[r] = 0)

\* some input of the run's variant is not on disk
InputMissing(r) ==
  \E p \in {TestFile, LogFile, InputFile} :
    /\ p \in (IF variant[r] = "GEN" THEN {InputFile} ELSE {TestFile, LogFile})
    /\ ~Exists(fs, p)

\* C8: a run with a missing or unreadable input fails at once: it ends with
\* an error and a non-zero exit code, having sent no POST, made no backup and
\* not written the target.
C8_MissingInputFailsFast ==
  \A r \in Procs :
    /\ (PastArgs(r) /\ pc[r] # "read" /\ InputMissing(r)) =>
         /\ pc[r] = "done"
         /\ err[r] = "InputNotFound"
         /\ exitCode[r] = 1
    /\ err[r] = "InputNotFound" =>
         /\ InputMissing(r)
         /\ posts[r] = <<>>
         /\ reply[r] = NoResponse
         /\ wrote[r] = 0
         /\ backupPath[r] = NoPath
         /\ fixedContent[r] = NoText

C8_Witness ==
  \E r \in Procs :
    /\ variant[r] \in RepairVariants
    /\ err[r] = "InputNotFound"
    /\ Exists(fs, TestFile)
    /\ ~Exists(fs, LogFile)

\* C9: in every variant, with the API key absent from the environment (or
\* equal to the variant's placeholder) the run ends with a credential error
\* before any POST: no POST ever carries the variant's fallback key.
C9_NoCallWithoutCredential ==
  \A r \in Procs :
    /\ \A i \in 1..Len(posts[r]) : posts[r][i] # FallbackKey(variant[r])
    /\ (PastArgs(r) /\ pc[r] \notin {"read", "call"} /\ err[r] # "InputNotFound"
        /\ apiKey[r] = FallbackKey(variant[r])) =>
         (err[r] = "CredentialMissing" /\ posts[r] = <<>>)

\* the error class the shared taxonomy gives a response
Taxonomy(resp) ==
  IF resp.kind = "http" /\ resp.status \in {401, 403} THEN "AuthFailed"
  ELSE IF resp.kind = "http" /\ resp.status = 429 THEN "RateLimited"
  ELSE IF resp.kind = "http" /\ resp.status \in 500..599 THEN "ProviderServerError"
  ELSE "ProviderError"

\* C10: in every variant a 401 or 403 ends in AuthFailed, a 429 in
\* RateLimited, every 5xx in ProviderServerError, and a transport failure in
\* a provider error that wraps it.  Stated for the runs that carry the
\* operator's own key.
C10_SharedTaxonomy ==
  \A r \in Procs :
    (/\ pc[r] = "done"
     /\ apiKey[r] = "real"
     /\ \/ reply[r].kind = "transport"
        \/ /\ reply[r].kind = "http"
           /\ reply[r].status \in {401, 403, 429} \cup (500..599))
      => err[r] = Taxonomy(reply[r])

\* C11: every invocation of a provider client (generatePlaywrightCode,
\* callPerplexity, callPerplexityAPI, callOpenAI) that gets past its
\* credential check sends exactly one POST and never sends a second one,
\* whatever the response; so the POSTs of a retry run are as many as its
\* attempts.
C11_OnePostPerInvocation ==
  /\ \A r \in Procs :
       /\ Len(posts[r]) = (IF reply[r] = NoResponse THEN 0 ELSE 1)
       /\ pc[r] \in {"dryrun", "backup", "write"} => Len(posts[r]) = 1
       /\ (pc[r] = "done" /\ (wrote[r] > 0 \/ "candidate" \in printed[r]))
            => Len(posts[r]) = 1
       /\ (pc[r] = "done" /\ err[r] = "CredentialMissing") => posts[r] = <<>>
  /\ Len(rcPosts) = rcInvoked
  /\ rcInvoked = Len(rcLog)

\* a call whose POST was answered with an HTTP error has ended the run
C11_Witness ==
  \E r \in Procs :
    /\ pc[r] = "done"
    /\ reply[r].kind = "http"
    /\ Len(posts[r]) = 1

\* a retry run of three failed attempts has sent three POSTs
C11_RetryWitness == rcPc = "Exhausted" /\ rcInvoked = 3 /\ Len(rcPosts) = 3

\* the fenced blocks of a reply, the language tag optional and any tag
ReplyBlocks(text) == FencedBlocks(text, 1, {"JS", "TS"})

\* C12: for every reply that holds one or more fenced blocks, the normalizer
\* of generate_test.js (extractCodeFromMarkdown) and the one of debug_test.js
\* (the clean-up in callPerplexity) return the interior of a longest block,
\* trimmed, without fences and without the prose around it.
C12_LongestBlockInterior ==
  LET blocks == ReplyBlocks(rawReply)
  IN (applied \in {"extractCodeFromMarkdown", "callPerplexity"} /\ Len(blocks) > 0)
       => \E i \in 1..Len(blocks) :
            /\ candidate = Trim(blocks[i])
            /\ \A j \in 1..Len(blocks) : StrLen(blocks[j]) <= StrLen(blocks[i])

\* where the anchor that comes first in the text starts, 0 when there is none
RECURSIVE FirstAnchor(_, _)
FirstAnchor(response, i) ==
  IF i > Len(response) THEN 0
  ELSE IF \E k \in 1..Len(codePatterns) : response[i] = codePatterns[k] THEN i
  ELSE FirstAnchor(response, i + 1)

\* C13: for every reply without a fenced block, extractJavaScriptCode
\* returns the text from the anchor that comes first (import / require of
\* the library, test( or describe( ) through the last closing brace, trimmed;
\* and the whole trimmed reply when no anchor occurs.
C13_AnchorToLastBrace ==
  LET a == FirstAnchor(rawReply, 1)
      b == LastBrace(rawReply, Len(rawReply))
  IN (applied = "extractJavaScriptCode" /\ Len(ReplyBlocks(rawReply)) = 0)
       => IF a = 0 THEN candidate = Trim(rawReply)
          ELSE b >= a =>
                 candidate = Trim(SubSeq(rawReply, a, b - 1)
                                    \o <<ThroughBrace(rawReply[b])>>)

\* the candidate holds an import / require of the library
HoldsImport(code) == \E i \in 1..Len(code) : code[i] \in {"IMPORT", "REQUIRE"}

\* the candidate holds a test( or describe( call
HoldsTest(code) == \E i \in 1..Len(code) : code[i] \in {"TEST", "DESCRIBE"}

C14_WitnessNoImport ==
  /\ applied = "validateGeneratedCode"
  /\ rawReply = <<"PROSE">>
  /\ validation.message = "NoPlaywrightImport"

\* C15 as stated: the validator never throws, whatever the candidate.
C15_NeverThrows == applied = "validateGeneratedCode" => ~validation.threw

\* C15, amended: the validator returns true for a candidate that holds both
\* the import and the test structure, and throws an Error that carries the
\* reason for every other candidate; it never returns false.
C15_ThrowsWhenInvalid ==
  applied = "validateGeneratedCode" =>
    /\ validation.threw <=> ~(HoldsImport(rawReply) /\ HoldsTest(rawReply))
    /\ validation.threw =>
         /\ validation.value = "none"
         /\ validation.message \in {"NoPlaywrightImport", "NoTestStructure"}
    /\ ~validation.threw => validation.value = "true"

\* an invalid candidate was validated, and the call threw
C15_Witness ==
  /\ applied = "validateGeneratedCode"
  /\ ~HoldsTest(rawReply)
  /\ HoldsImport(rawReply)
  /\ validation.threw

\* the target of r's run holds the candidate r got from the provider
TargetHoldsCandidate(r) ==
  /\ Exists(fs, TargetOf(variant[r]))
  /\ fs[TargetOf(variant[r])] = fixedContent[r]

\* the run of r ended in a help request, a dry-run render of the provider's
\* answer, or a write that left the candidate in the target
EndedWell(r) ==
  \/ args[r].help /\ "usage" \in printed[r]
  \/ /\ "candidate" \in printed[r]
     /\ reply[r].kind = "ok"
  \/ /\ wrote[r] = 1
     /\ reply[r].kind = "ok"
     /\ TargetHoldsCandidate(r)

C16_WitnessDryRun ==
  \E r \in Procs :
    pc[r] = "done" /\ "candidate" \in printed[r] /\ exitCode[r] = 0

\* the attempts in the log that failed and were not the last one allowed
FailedBeforeLast ==
  {i \in 1..Len(rcLog) : rcLog[i].error # "ok" /\ rcLog[i].attemptNumber < maxRetries}

\* C17: attempts of the retry loop run one after the other with one delay in
\* between: an attempt starts only when every earlier attempt has ended and
\* been followed by its delay; every failed attempt but the last allowed one
\* is followed by exactly one delay, and no delay follows a successful
\* attempt or the last failed one.
C17_OneDelayBetweenAttempts ==
  /\ rcDelays = Cardinality(FailedBeforeLast) - (IF rcPc = "Delay" THEN 1 ELSE 0)
  /\ rcPc = "Attempting" =>
       /\ Len(rcLog) = attempt - 1
       /\ rcInvoked = attempt - 1
       /\ rcDelays = attempt - 1
  /\ rcPc = "Delay" => (Len(rcLog) = attempt /\ rcLog[attempt].error # "ok")
  /\ rcPc = "Success" => rcDelays = Len(rcLog) - 1
  /\ rcPc = "Exhausted" => (Len(rcLog) = maxRetries /\ rcDelays = maxRetries - 1)

\* three attempts failed, and the controller waited twice
C17_Witness ==
  /\ rcPc = "Exhausted"
  /\ maxRetries = 3
  /\ Len(rcLog) = 3
  /\ rcDelays = 2

\* C18: for every maxRetries, 0 included, the controller ends only by
\* returning a validated candidate (Success) or by throwing GenerationFailed
\* (Exhausted), after at most maxRetries provider calls with attempt going up
\* by one per attempt.
C18_EndsInSuccessOrExhausted ==
  /\ rcPc \in {"Pending", "Loop", "Attempting", "Delay", "Increment",
               "Success", "Exhausted"}
  /\ rcThrown.name \in {"none", "GenerationFailed"}
  /\ rcInvoked <= maxRetries
  /\ \A i \in 1..Len(rcLog) : rcLog[i].attemptNumber = i

\* C19: two repair runs on one target at a time are not kept apart: a backup
\* holds what the target holds when the copy is made, whoever wrote it and
\* whatever the run itself read, and each completed write leaves the writer's
\* candidate in the target, so the target ends with the output of the run
\* that wrote last.
C19_BackupCopiesWhatIsThere ==
  [][\A r \in Procs :
       /\ (pc[r] = "backup" /\ backupPath'[r] # backupPath[r]) =>
            fs'[backupPath'[r]] = fs[TestFile]
       /\ (pc[r] = "write" /\ pc'[r] = "done" /\ err'[r] = "none") =>
            fs'[TestFile] = fixedContent[r]]_vars

\* both runs are over; the backup of one holds the other's output and not
\* the original that run read; the target holds the output of the run that
\* backed up the other's
C19_Witness ==
  \E r, q \in Procs :
    /\ r # q
    /\ pc[r] = "done" /\ err[r] = "none"
    /\ pc[q] = "done" /\ err[q] = "none"
    /\ testContent[r] = OriginalTest
    /\ backupPath[r] # NoPath
    /\ backupPath[q] # backupPath[r]
    /\ fs[backupPath[r]] # testContent[r]
    /\ fs[backupPath[r]] = fixedContent[q]
    /\ fixedContent[q] # fixedContent[r]
    /\ fs[TestFile] = fixedContent[r]

\* the timestamp a script puts in its backup's name: debug_test.js keeps the
\* milliseconds, the other two stop at the second
StampOf(e) == IF e.by = "DBG" THEN e.at ELSE timestamp(e.at)

\* no other backup of the same script carries the timestamp of record i
StampAlone(i) ==
  \A j \in 1..Len(journal) :
    (j # i /\ journal[j].by = journal[i].by) =>
      StampOf(journal[j]) # StampOf(journal[i])

\* C20: after repair runs made one after the other with the backup on, the
\* content the target held right before a run overwrote it is still held by
\* that run's backup file whenever no other run of the script has the same
\* timestamp; two runs of a script with the same timestamp have the same
\* backup path, which holds what the later of them copied.
C20_BackupsKeepOverwritten ==
  \A i \in 1..Len(journal) :
    /\ (journal[i].overwritten /\ StampAlone(i)) =>
         /\ Exists(fs, journal[i].bak)
         /\ fs[journal[i].bak] = journal[i].pre
    /\ \A j \in 1..Len(journal) :
         (i < j /\ journal[i].by = journal[j].by
          /\ StampOf(journal[i]) = StampOf(journal[j])) =>
           /\ journal[i].bak = journal[j].bak
           /\ (journal[j].overwritten /\ LastRecordOf(journal, journal[j].bak,
                                                      Len(journal)) = j)
                => fs[journal[j].bak] = journal[j].pre

\* two runs overwrote the target, and both contents it held are in backups
C20_Witness ==
  /\ Len(journal) = 2
  /\ journal[1].overwritten /\ journal[2].overwritten
  /\ journal[1].bak # journal[2].bak
  /\ journal[1].pre # journal[2].pre
  /\ fs[journal[1].bak] = journal[1].pre
  /\ fs[journal[2].bak] = journal[2].pre
  /\ \A r \in Procs : pc[r] = "idle"

\* two runs in the same second: one backup path, and the content the target
\* held before the first overwrite is in no backup any more
C20_WitnessCoincide ==
  /\ Len(journal) = 2
  /\ journal[1].overwritten /\ journal[2].overwritten
  /\ journal[1].bak = journal[2].bak
  /\ journal[1].at # journal[2].at
  /\ fs[journal[2].bak] = journal[2].pre
  /\ \A p \in DOMAIN fs : fs[p] # journal[1].pre

=============================================================================
